---- MODULE Spec2Model ----
(***************************************************************************)
(* ListDir of gitstatus (src/dir.cc): the Linux implementation that reads  *)
(* raw getdents64 records into arena buffers and sorts name pointers with  *)
(* a byte-swapped 64-bit prefix comparison, and the POSIX implementation   *)
(* built on dup/fdopendir/readdir.  Memory is modelled byte by byte:       *)
(* a pointer is <<buffer, offset>>, a 64-bit word is the tuple of its 8    *)
(* bytes, most significant first.                                          *)
(***************************************************************************)
EXTENDS Integers, Sequences, FiniteSets

VARIABLES
  variant,         \* "linux" or "posix": which ListDir the build compiled in
  little_endian,   \* __BYTE_ORDER__ == __ORDER_LITTLE_ENDIAN__ of the build
  case_sensitive,  \* argument of ListDir
  pc,              \* "idle" (before the call), "loop", "done" (returned), "thrown"
  result,          \* the bool ListDir returned ("none" until it returns)
  entries,         \* std::vector<char*>& entries: a sequence of pointers
  bufs,            \* linux: the 8 KiB arena buffers, as the kernel filled them
  mem,             \* linux: bytes written after the kernel filled the buffers
  reads,           \* linux: the results of the getdents64 calls made, in order
  pushed,          \* number of push_back calls made by this call
  buf_n,           \* linux, offsets only: n of the buffer being scanned (<<>>: none yet)
  pos,             \* linux, offsets only: the cursor of the for loop
  name_ptr,        \* linux, offsets only: offset of the d_name visited last (<<>>: none)
  seen,            \* posix: the names readdir has returned
  allocs,          \* posix: the per-entry arena allocations, byte by byte
  errno,           \* posix: the thread's errno
  nullKind,        \* posix: how readdir returned NULL: "none", "end" or "error"
  errno_prior,     \* posix: <<errno>> as the turn in which readdir returned NULL found it
  dir_fd,          \* posix: the local dir_fd (reassigned by dup)
  streamOpen,      \* posix: fdopendir returned a stream
  fdOpen,          \* posix: the set of open descriptors of the process
  releases         \* posix: close/closedir calls made, in order

vars == <<variant, little_endian, case_sensitive, pc, result, entries, bufs, mem,
          reads, pushed, buf_n, pos, name_ptr, seen, allocs, errno, nullKind,
          errno_prior, dir_fd, streamOpen, fdOpen, releases>>

linuxVars == <<bufs, mem, reads>>
layoutVars == <<buf_n, pos, name_ptr>>
posixVars == <<seen, allocs, errno, nullKind, errno_prior, dir_fd, streamOpen, fdOpen,
              releases>>
buildVars == <<variant, little_endian, case_sensitive>>

(***************************************************************************)
(* Bounds of the model and the inputs drawn from them.                     *)
(***************************************************************************)
MaxEntries == 2      \* directory records delivered to one call

Rep(b, k) == [i \in 1..k |-> b]

\* The names a directory record may carry (bytes, without the terminator):
\* ".", "..", ".a", "..a", eight 'a', and two 255-byte names that differ in
\* their last byte only, one of them ending in a byte above 127.
Names ==
  << <<46>>, <<46, 46>>, <<46, 97>>, <<46, 46, 97>>,
     Rep(97, 8), Rep(97, 255), Rep(97, 254) \o <<200>> >>

NameIds == 1..Len(Names)

\* Values of the bytes nobody initialised: record padding, d_ino, d_off,
\* d_type, and the part of a buffer the kernel did not write.
FillBytes == {0, 255}

\* What the caller's vector holds before the call: a pointer into older
\* arena memory, left by an earlier listing.
OldPtr == <<0, 0>>
OldEntries == <<OldPtr>>

\* errno values a failing library call may leave (0: none).
ErrnoValues == {0, 2}

\* The caller's descriptor (the first after stdin, stdout and stderr), and
\* what dup may return for it.
CallerFd == 2 + 1
DupResults == {-1, CallerFd + 1}

(***************************************************************************)
(* Constants of the code.                                                  *)
(***************************************************************************)
kBufSize == 8192
kReserve == 256
kNameOffset == 19
kWordBytes == 8
kCmpOffset == 5
kCmpLen == 256

\* (Variant: the request asks for the whole buffer.)
GetdentsCount_noReserve == kBufSize

\* The size getdents64 is asked for.
GetdentsCount == kBufSize - kReserve

\* d_reclen as the kernel computes it: the record's size rounded up to 8.
Reclen(name) == ((kNameOffset + Len(name) + 1 + 7) \div 8) * 8

(***************************************************************************)
(* Memory.  bufs[b] is buffer b as getdents64 left it: the n bytes of its   *)
(* records [pos, reclen, name], pos the record's offset, and the value     *)
(* `fill` of every byte nobody set.  mem maps the addresses written since  *)
(* to their bytes.                                                         *)
(***************************************************************************)
\* Byte r of a linux_dirent64 record: d_ino (0..7), d_off (8..15), d_reclen
\* (16..17, little-endian), d_type (18), d_name with its terminator, padding.
RecByte(rec, fill, r) ==
  IF r >= kNameOffset
  THEN LET name == Names[rec.name] IN
       IF r - kNameOffset < Len(name) THEN name[r - kNameOffset + 1]
       ELSE IF r - kNameOffset = Len(name) THEN 0
       ELSE fill
  ELSE IF r = 16 THEN rec.reclen % 256
  ELSE IF r = 17 THEN (rec.reclen \div 256) % 256
  ELSE fill

\* The record that holds offset off < n: the last one that starts at or before it.
RECURSIVE RecAt(_, _, _)
RecAt(recs, off, j) == IF recs[j].pos <= off THEN recs[j] ELSE RecAt(recs, off, j - 1)

BufByte(bs, b, off) ==
  IF off >= bs[b].n THEN bs[b].fill
  ELSE LET rec == RecAt(bs[b].recs, off, Len(bs[b].recs))
       IN RecByte(rec, bs[b].fill, off - rec.pos)

Byte(bs, m, p) == IF p \in DOMAIN m THEN m[p] ELSE BufByte(bs, p[1], p[2])

At(p, k) == <<p[1], p[2] + k>>

\* The longest name of the model; every string ends within MaxNameLen + 1 bytes.
MaxNameLen == Len(Names[CHOOSE i \in NameIds : \A j \in NameIds : Len(Names[j]) <= Len(Names[i])])

\* std::strlen(p) and the null-terminated string at p.
strlen(bs, m, p) ==
  CHOOSE k \in 0..MaxNameLen :
    Byte(bs, m, At(p, k)) = 0 /\ \A j \in 0..(k - 1) : Byte(bs, m, At(p, j)) # 0

CStr(bs, m, p) == [i \in 1..strlen(bs, m, p) |-> Byte(bs, m, At(p, i - 1))]

\* (Variant: every name that starts with a dot is taken for "." or "..".)
Dots_anyDot(bs, m, name) == Byte(bs, m, name) = 46

Dots(bs, m, name) ==
  IF Byte(bs, m, name) = 46
  THEN IF Byte(bs, m, At(name, 1)) = 0 THEN TRUE
       ELSE IF Byte(bs, m, At(name, 1)) = 46 /\ Byte(bs, m, At(name, 2)) = 0 THEN TRUE
       ELSE FALSE
  ELSE FALSE

(***************************************************************************)
(* 64-bit words: <<b1, ..., b8>>, b1 the most significant byte.            *)
(***************************************************************************)
Read64(le, bs, m, p) ==
  IF le THEN [i \in 1..kWordBytes |-> Byte(bs, m, At(p, kWordBytes - i))]
        ELSE [i \in 1..kWordBytes |-> Byte(bs, m, At(p, i - 1))]

Write64(le, x, m, p) ==
  LET W == {At(p, k) : k \in 0..(kWordBytes - 1)} IN
  [a \in DOMAIN m \cup W |->
     IF a \in W THEN (IF le THEN x[kWordBytes - (a[2] - p[2])] ELSE x[a[2] - p[2] + 1])
     ELSE m[a]]

\* (Variant: the bytes are left in place.)
bswap64_none(x) == x

bswap64(x) == [i \in 1..kWordBytes |-> x[kWordBytes + 1 - i]]

\* x < y on 64-bit unsigned words.
RECURSIVE WordLess(_, _, _)
WordLess(x, y, i) ==
  IF i > kWordBytes THEN FALSE
  ELSE IF x[i] # y[i] THEN x[i] < y[i]
  ELSE WordLess(x, y, i + 1)

\* std::memcmp(a, b, n): negative, zero or positive, as unsigned bytes decide.
memcmp(bs, m, a, b, n) ==
  LET Differ(k) == Byte(bs, m, At(a, k)) # Byte(bs, m, At(b, k))
      d == CHOOSE k \in 0..n : (k = n \/ Differ(k)) /\ \A j \in 0..(k - 1) : ~Differ(j)
  IN IF d = n THEN 0 ELSE Byte(bs, m, At(a, d)) - Byte(bs, m, At(b, d))

RECURSIVE SwapBytes(_, _, _, _)
SwapBytes(le, bs, m, es) ==
  IF ~le \/ es = <<>> THEN m
  ELSE SwapBytes(le, bs,
                 Write64(le, bswap64(Read64(le, bs, m, Head(es))), m, Head(es)),
                 Tail(es))

\* The comparator SortEntries<true> hands to std::sort.
EntryLess(le, bs, m, a, b) ==
  LET x == Read64(le, bs, m, a)
      y == Read64(le, bs, m, b)
  IN WordLess(x, y, 1)
       \/ (x = y /\ memcmp(bs, m, At(a, kCmpOffset), At(b, kCmpOffset), kCmpLen) < 0)

\* StrLt<kCaseSensitive> of string_cmp.h: byte-wise order of two strings,
\* letters folded to lower case when kCaseSensitive is false.
ToLower(c) == IF c >= 65 /\ c <= 90 THEN c + 32 ELSE c

Fold(cs, c) == IF cs THEN c ELSE ToLower(c)

Min(S) == CHOOSE x \in S : \A y \in S : x <= y

\* On byte sequences without terminator.
SeqLess(cs, s, t) ==
  LET n == IF Len(s) < Len(t) THEN Len(s) ELSE Len(t)
      D == {i \in 1..n : Fold(cs, s[i]) # Fold(cs, t[i])}
  IN IF D = {} THEN Len(s) < Len(t) ELSE Fold(cs, s[Min(D)]) < Fold(cs, t[Min(D)])

\* On null-terminated strings in memory.
StrLt(cs, bs, m, a, b) ==
  LET Stop(k) == \/ Byte(bs, m, At(a, k)) = 0
                 \/ Fold(cs, Byte(bs, m, At(a, k))) # Fold(cs, Byte(bs, m, At(b, k)))
      d == CHOOSE k \in 0..MaxNameLen : Stop(k) /\ \A j \in 0..(k - 1) : ~Stop(j)
  IN Fold(cs, Byte(bs, m, At(a, d))) < Fold(cs, Byte(bs, m, At(b, d)))

\* std::sort: the arrangements of es that its postcondition allows under the
\* strict weak ordering Less.
Bijections(n) == {f \in [1..n -> 1..n] : \A i, j \in 1..n : i # j => f[i] # f[j]}

Range(es) == {es[i] : i \in 1..Len(es)}

\* The ordered pairs of distinct elements the comparator is called on.
Pairs(es) == {x \in Range(es) \X Range(es) : x[1] # x[2]}

\* lt[<<a, b>>] is the comparator's answer on (a, b).
Sorted(es, lt) ==
  {q \in {[i \in 1..Len(es) |-> es[f[i]]] : f \in Bijections(Len(es))} :
     \A i, j \in 1..Len(es) : i < j => ~lt[<<q[j], q[i]>>]}

\* (Variant: the prefixes are not swapped back after the sort.)
SortEntriesTrue_noSwapBack(le, bs, m, es) ==
  LET m1 == SwapBytes(le, bs, m, es)
      lt == [pr \in Pairs(es) |-> EntryLess(le, bs, m1, pr[1], pr[2])]
  IN {[entries |-> q, mem |-> m1] : q \in Sorted(es, lt)}

\* SortEntries<true> and SortEntries<false>: the vectors and memories the
\* call may leave.
SortEntriesTrue(le, bs, m, es) ==
  LET m1 == SwapBytes(le, bs, m, es)
      lt == [pr \in Pairs(es) |-> EntryLess(le, bs, m1, pr[1], pr[2])]
  IN {[entries |-> q, mem |-> SwapBytes(le, bs, m1, q)] : q \in Sorted(es, lt)}

SortEntriesFalse(bs, m, es) ==
  LET lt == [pr \in Pairs(es) |-> StrLt(FALSE, bs, m, pr[1], pr[2])]
  IN {[entries |-> q, mem |-> m] : q \in Sorted(es, lt)}

(***************************************************************************)
(* The state before the call.                                              *)
(***************************************************************************)
NoBytes == [a \in {} |-> 0]

Init ==
  /\ variant \in {"linux", "posix"}
  /\ little_endian \in (IF variant = "linux" THEN BOOLEAN ELSE {TRUE})
  /\ case_sensitive \in BOOLEAN
  /\ pc = "idle"
  /\ result = "none"
  /\ entries = OldEntries
  /\ bufs = <<>>
  /\ mem = NoBytes
  /\ reads = <<>>
  /\ pushed = 0
  /\ buf_n = <<>>
  /\ pos = 0
  /\ name_ptr = <<>>
  /\ seen = {}
  /\ allocs = <<>>
  /\ errno \in (IF variant = "posix" THEN ErrnoValues ELSE {0})
  /\ nullKind = "none"
  /\ errno_prior = <<>>
  /\ dir_fd = CallerFd
  /\ streamOpen = FALSE
  /\ fdOpen = {CallerFd}
  /\ releases = <<>>

(***************************************************************************)
(* ListDir, Linux.                                                         *)
(***************************************************************************)
\* The names delivered to this call so far; a directory holds each name once.
RECURSIVE Delivered(_)
Delivered(bs) ==
  IF bs = <<>> THEN {}
  ELSE {Head(bs).recs[i].name : i \in 1..Len(Head(bs).recs)} \cup Delivered(Tail(bs))

\* The kernel packs the records it returns one after the other.
RECURSIVE RecStart(_, _)
RecStart(ids, i) == IF i = 1 THEN 0 ELSE RecStart(ids, i - 1) + Reclen(Names[ids[i - 1]])

Packed(ids) ==
  [n |-> RecStart(ids, Len(ids) + 1),
   recs |-> [i \in 1..Len(ids) |->
               [pos |-> RecStart(ids, i), reclen |-> Reclen(Names[ids[i]]), name |-> ids[i]]]]

\* The for loop over the n bytes getdents64 wrote to buffer b.
RECURSIVE ScanBuf(_, _, _, _, _)
ScanBuf(bs, b, n, cur, es) ==
  IF cur < n
  THEN LET d_name == <<b, cur + kNameOffset>>
           d_reclen == BufByte(bs, b, cur + 16) + 256 * BufByte(bs, b, cur + 17)
       IN ScanBuf(bs, b, n, cur + d_reclen,
                  IF ~Dots(bs, NoBytes, d_name) THEN Append(es, d_name) ELSE es)
  ELSE es

\* A buffer the kernel wrote nothing to; none of its bytes is ever read.
Unwritten == [n |-> 0, recs |-> <<>>, fill |-> 0]

\* entries.clear() on entry.
Enter ==
  /\ variant = "linux"
  /\ pc = "idle"
  /\ entries' = <<>>
  /\ pc' = "loop"
  /\ UNCHANGED <<buildVars, result, linuxVars, pushed, layoutVars, posixVars>>

\* (Variant: a read that leaves room for another record is taken for the
\* last one: the loop is left, the entries are sorted, true is returned.)
GetdentsRecords_bailOnShortRead ==
  /\ variant = "linux"
  /\ pc = "loop"
  /\ \E k \in 1..(MaxEntries - Cardinality(Delivered(bufs))) :
       \E ids \in [1..k -> NameIds \ Delivered(bufs)], fill \in FillBytes :
         LET n == Packed(ids).n
             bs == Append(bufs, [n |-> n, recs |-> Packed(ids).recs, fill |-> fill])
             es == ScanBuf(bs, Len(bs), n, 0, entries)
         IN /\ \A i, j \in 1..k : i # j => ids[i] # ids[j]
            /\ n <= GetdentsCount
            /\ bufs' = bs
            /\ reads' = Append(reads, n)
            /\ pushed' = pushed + Len(es) - Len(entries)
            /\ IF n + kNameOffset + 512 <= GetdentsCount
               THEN /\ \E r \in (IF case_sensitive
                                  THEN SortEntriesTrue(little_endian, bs, mem, es)
                                  ELSE SortEntriesFalse(bs, mem, es)) :
                         /\ entries' = r.entries
                         /\ mem' = r.mem
                    /\ result' = TRUE
                    /\ pc' = "done"
               ELSE /\ entries' = es
                    /\ UNCHANGED <<pc, result, mem>>
  /\ UNCHANGED <<buildVars, layoutVars, posixVars>>

\* One turn of the while loop in which getdents64 returns n > 0.
GetdentsRecords ==
  /\ variant = "linux"
  /\ pc = "loop"
  /\ \E k \in 1..(MaxEntries - Cardinality(Delivered(bufs))) :
       \E ids \in [1..k -> NameIds \ Delivered(bufs)], fill \in FillBytes :
         LET n == Packed(ids).n
             bs == Append(bufs, [n |-> n, recs |-> Packed(ids).recs, fill |-> fill])
             es == ScanBuf(bs, Len(bs), n, 0, entries)
         IN /\ \A i, j \in 1..k : i # j => ids[i] # ids[j]
            /\ n <= GetdentsCount
            /\ bufs' = bs
            /\ reads' = Append(reads, n)
            /\ entries' = es
            /\ pushed' = pushed + Len(es) - Len(entries)
  /\ UNCHANGED <<buildVars, pc, result, mem, layoutVars, posixVars>>

\* (Variant: the failure path returns without clearing the vector.)
GetdentsError_keepEntries ==
  /\ variant = "linux"
  /\ pc = "loop"
  /\ bufs' = Append(bufs, Unwritten)
  /\ reads' = Append(reads, -1)
  /\ result' = FALSE
  /\ pc' = "done"
  /\ UNCHANGED <<buildVars, entries, mem, pushed, layoutVars, posixVars>>

\* The turn in which getdents64 returns n < 0.
GetdentsError ==
  /\ variant = "linux"
  /\ pc = "loop"
  /\ bufs' = Append(bufs, Unwritten)
  /\ reads' = Append(reads, -1)
  /\ entries' = <<>>
  /\ result' = FALSE
  /\ pc' = "done"
  /\ UNCHANGED <<buildVars, mem, pushed, layoutVars, posixVars>>

\* The turn in which getdents64 returns 0: break, sort, return true.
GetdentsEnd ==
  /\ variant = "linux"
  /\ pc = "loop"
  /\ LET bs == Append(bufs, Unwritten) IN
       /\ bufs' = bs
       /\ \E r \in (IF case_sensitive
                    THEN SortEntriesTrue(little_endian, bs, mem, entries)
                    ELSE SortEntriesFalse(bs, mem, entries)) :
            /\ entries' = r.entries
            /\ mem' = r.mem
  /\ reads' = Append(reads, 0)
  /\ result' = TRUE
  /\ pc' = "done"
  /\ UNCHANGED <<buildVars, pushed, layoutVars, posixVars>>

NextLinux == Enter \/ GetdentsRecords \/ GetdentsError \/ GetdentsEnd

(***************************************************************************)
(* ListDir, POSIX.                                                         *)
(***************************************************************************)
\* What leaves ListDir when VERIFY fails (check.h): an exception, no result.
VERIFY_fail == "thrown"

\* The conversion of a returned int to the function's bool.
BoolOfInt(x) == x # 0

\* d_type of the entries of the model: DT_REG.
DTypes == {8}

\* The allocation of len + 2 bytes: the type tag, then d_name copied with
\* its terminator.
Copy(type, d_name) ==
  LET len == Min({k \in 0..(Len(d_name) - 1) : d_name[k + 1] = 0}) IN
  <<type>> \o [i \in 1..(len + 1) |-> d_name[i]]

\* The null-terminated string at p = <<allocation, offset>>.
AllocCStr(al, p) ==
  LET bytes == al[p[1]]
      len == Min({k \in 0..(Len(bytes) - p[2] - 1) : bytes[p[2] + k + 1] = 0})
  IN [i \in 1..len |-> bytes[p[2] + i]]

\* StrSort of string_cmp.h: std::sort under StrLt.
StrSort(al, es, cs) ==
  LET lt == [pr \in Pairs(es) |-> SeqLess(cs, AllocCStr(al, pr[1]), AllocCStr(al, pr[2]))]
  IN Sorted(es, lt)

\* (Variant: errno is not reset before readdir.)
ErrnoBeforeReaddir_stale(e) == e

\* errno as the comma expression leaves it before readdir runs.
ErrnoBeforeReaddir(e) == 0

\* dup fails: VERIFY fails.
DupFail ==
  /\ variant = "posix"
  /\ pc = "idle"
  /\ \E fd \in {r \in DupResults : r < 0}, e \in ErrnoValues \ {0} :
       /\ dir_fd' = fd
       /\ errno' = e
  /\ pc' = VERIFY_fail
  /\ UNCHANGED <<buildVars, result, entries, linuxVars, pushed, layoutVars, seen, allocs,
                 nullKind, errno_prior, streamOpen, fdOpen, releases>>

\* (Variant: the duplicate is not closed when fdopendir fails.)
FdopendirFail_leak ==
  /\ variant = "posix"
  /\ pc = "idle"
  /\ \E fd \in {r \in DupResults : r >= 0}, e \in ErrnoValues \ {0} :
       /\ dir_fd' = fd
       /\ errno' = e
       /\ fdOpen' = fdOpen \cup {fd}
  /\ result' = BoolOfInt(-1)
  /\ pc' = "done"
  /\ UNCHANGED <<buildVars, entries, linuxVars, pushed, layoutVars, seen, allocs,
                 nullKind, errno_prior, streamOpen, releases>>

\* dup succeeds, fdopendir returns NULL: close the duplicate, return -1.
FdopendirFail ==
  /\ variant = "posix"
  /\ pc = "idle"
  /\ \E fd \in {r \in DupResults : r >= 0}, e \in ErrnoValues \ {0} :
       /\ dir_fd' = fd
       /\ errno' = e
       /\ fdOpen' = (fdOpen \cup {fd}) \ {fd}
       /\ releases' = Append(releases, [op |-> "close", fd |-> fd])
  /\ result' = BoolOfInt(-1)
  /\ pc' = "done"
  /\ UNCHANGED <<buildVars, entries, linuxVars, pushed, layoutVars, seen, allocs,
                 nullKind, errno_prior, streamOpen>>

\* dup and fdopendir succeed: the scope guard is armed, entries.clear().
OpenStream ==
  /\ variant = "posix"
  /\ pc = "idle"
  /\ \E fd \in {r \in DupResults : r >= 0} :
       /\ dir_fd' = fd
       /\ fdOpen' = fdOpen \cup {fd}
  /\ streamOpen' = TRUE
  /\ entries' = <<>>
  /\ pc' = "loop"
  /\ UNCHANGED <<buildVars, result, linuxVars, pushed, layoutVars, seen, allocs, errno,
                 nullKind, errno_prior, releases>>

\* One turn of the while loop: errno = 0, readdir returns an entry, which is
\* skipped or copied to the arena and pushed.  readdir and the allocation
\* may leave any errno.
ReaddirEntry ==
  /\ variant = "posix"
  /\ pc = "loop"
  /\ Cardinality(seen) < MaxEntries
  /\ \E id \in NameIds \ seen, type \in DTypes, e \in ErrnoValues :
       LET d_name == Names[id] \o <<0>> IN
       /\ seen' = seen \cup {id}
       /\ errno' = e
       /\ IF d_name[1] = 46 /\ (d_name[2] = 0 \/ (d_name[2] = 46 /\ d_name[3] = 0))
          THEN UNCHANGED <<allocs, entries, pushed>>
          ELSE /\ allocs' = Append(allocs, Copy(type, d_name))
               /\ entries' = Append(entries, <<Len(allocs) + 1, 1>>)
               /\ pushed' = pushed + 1
  /\ UNCHANGED <<buildVars, pc, result, linuxVars, layoutVars, nullKind, errno_prior,
                 dir_fd, streamOpen, fdOpen, releases>>

\* The turn in which readdir returns NULL, at the end of the stream (errno
\* untouched) or on an error (errno set); then the test of errno, the sort,
\* and closedir by the scope guard.
ReaddirNull ==
  /\ variant = "posix"
  /\ pc = "loop"
  /\ \E kind \in {"end", "error"}, e \in ErrnoValues \ {0} :
       LET after == IF kind = "error" THEN e ELSE ErrnoBeforeReaddir(errno) IN
       /\ nullKind' = kind
       /\ errno_prior' = <<errno>>
       /\ errno' = after
       /\ IF after # 0
          THEN /\ entries' = <<>>
               /\ result' = FALSE
          ELSE /\ entries' \in StrSort(allocs, entries, case_sensitive)
               /\ result' = TRUE
  /\ streamOpen' = FALSE
  /\ fdOpen' = fdOpen \ {dir_fd}
  /\ releases' = Append(releases, [op |-> "closedir", fd |-> dir_fd])
  /\ pc' = "done"
  /\ UNCHANGED <<buildVars, linuxVars, pushed, layoutVars, seen, allocs, dir_fd>>

NextPosix == DupFail \/ FdopendirFail \/ OpenStream \/ ReaddirEntry \/ ReaddirNull

Next == NextLinux \/ NextPosix

Spec == Init /\ [][Next]_vars

(***************************************************************************)
(* The Linux loop on offsets alone: only n, the cursor and the address of  *)
(* the name visited are kept, so that buffers as full as the kernel may    *)
(* make them are within reach.  d_reclen is any size the kernel gives a    *)
(* name of the model; n is one record, or within LayoutShort records' worth *)
(* of alignment units of the size requested.                               *)
(***************************************************************************)
LayoutShort == 1

KernelReclens == {Reclen(Names[id]) : id \in NameIds}

LayoutSizes ==
  {Reclen(<<97>>)} \cup {(GetdentsCount \div 8) * 8 - 8 * k : k \in 0..LayoutShort}

InitLayout ==
  /\ variant = "linux"
  /\ little_endian = TRUE
  /\ case_sensitive = TRUE
  /\ pc = "loop"
  /\ result = "none"
  /\ entries = <<>>
  /\ bufs = <<>>
  /\ mem = NoBytes
  /\ reads = <<>>
  /\ pushed = 0
  /\ buf_n = <<>>
  /\ pos = 0
  /\ name_ptr = <<>>
  /\ seen = {}
  /\ allocs = <<>>
  /\ errno = 0
  /\ nullKind = "none"
  /\ errno_prior = <<>>
  /\ dir_fd = CallerFd
  /\ streamOpen = FALSE
  /\ fdOpen = {CallerFd}
  /\ releases = <<>>

\* getdents64 returns n > 0 into a fresh buffer; the for loop starts at 0.
GetdentsOffsets ==
  /\ pc = "loop"
  /\ IF buf_n = <<>> THEN TRUE ELSE pos >= buf_n[1]
  /\ \E n \in LayoutSizes :
       /\ n <= GetdentsCount
       /\ buf_n' = <<n>>
  /\ pos' = 0
  /\ name_ptr' = <<>>
  /\ UNCHANGED <<buildVars, pc, result, entries, linuxVars, pushed, posixVars>>

\* One turn of the for loop: ent->d_name is visited, pos += ent->d_reclen.
\* The records of a buffer end exactly at n.
VisitRecord ==
  /\ pc = "loop"
  /\ buf_n # <<>>
  /\ pos < buf_n[1]
  /\ \E d_reclen \in KernelReclens :
       LET rest == buf_n[1] - pos - d_reclen IN
       /\ (rest = 0 \/ rest >= Reclen(<<97>>))
       /\ name_ptr' = <<pos + kNameOffset>>
       /\ pos' = pos + d_reclen
  /\ UNCHANGED <<buildVars, pc, result, entries, linuxVars, pushed, buf_n, posixVars>>

NextLayout == GetdentsOffsets \/ VisitRecord

SpecLayout == InitLayout /\ [][NextLayout]_vars

(***************************************************************************)
(* Properties.                                                             *)
(***************************************************************************)
DotIds == {id \in NameIds : Names[id] \in {<<46>>, <<46, 46>>}}

Last(q) == q[Len(q)]

\* The memory at p holds `name` and its terminator.
StrIs(p, name) ==
  /\ \A k \in 1..Len(name) : Byte(bufs, mem, At(p, k - 1)) = name[k]
  /\ Byte(bufs, mem, At(p, Len(name))) = 0

\* The name the kernel wrote at p.
WrittenAt(p) ==
  LET recs == bufs[p[1]].recs
  IN Names[recs[CHOOSE j \in 1..Len(recs) : recs[j].pos + kNameOffset = p[2]].name]

\* C1: Linux: once getdents64 has returned 0 the call has returned true, and
\* the vector addresses every name delivered by any of the reads exactly
\* once, except "." and "..", which it does not address at all.
C1_EveryNameButDotsOnce ==
  (variant = "linux" /\ reads # <<>> /\ Last(reads) = 0) =>
     /\ pc = "done"
     /\ result = TRUE
     /\ Len(entries) = Cardinality(Delivered(bufs) \ DotIds)
     /\ \A id \in NameIds :
          Cardinality({i \in 1..Len(entries) : StrIs(entries[i], Names[id])})
            = (IF id \in Delivered(bufs) \ DotIds THEN 1 ELSE 0)

\* Two reads were needed, one delivered "." or "..", and the name of the
\* first read is the one returned.
C1_Witness ==
  /\ variant = "linux"
  /\ pc = "done"
  /\ result = TRUE
  /\ Len(reads) = 3
  /\ Delivered(bufs) \cap DotIds # {}
  /\ Len(entries) = 1
  /\ entries[1][1] = 1

\* C2: Linux, case_sensitive: on return the names the vector addresses are
\* in strictly ascending byte-wise order, whatever fills the unset bytes.
C2_CaseSensitiveAscending ==
  (variant = "linux" /\ pc = "done" /\ result = TRUE /\ case_sensitive) =>
     \A i \in 1..(Len(entries) - 1) :
        StrLt(TRUE, bufs, mem, entries[i], entries[i + 1])

\* The two 255-byte names, delivered in descending order by two reads whose
\* buffers are filled differently, on a little-endian build.
C2_Witness ==
  /\ variant = "linux"
  /\ pc = "done"
  /\ result = TRUE
  /\ case_sensitive
  /\ little_endian
  /\ Len(entries) = 2
  /\ entries[1][1] = 2
  /\ entries[2][1] = 1
  /\ Len(WrittenAt(entries[1])) = MaxNameLen
  /\ Len(WrittenAt(entries[2])) = MaxNameLen
  /\ bufs[1].fill # bufs[2].fill

\* C3: whenever ListDir has returned false the vector is empty.
C3_EmptyOnFalse ==
  (pc = "done" /\ result = FALSE) => entries = <<>>

\* getdents64 failed after names had been pushed.
C3_Witness ==
  /\ variant = "linux"
  /\ pc = "done"
  /\ result = FALSE
  /\ pushed > 0

\* C4: POSIX: when dup or fdopendir fails, ListDir returns false.
C4_AcquisitionFailureReturnsFalse ==
  (variant = "posix" /\ pc \in {"done", VERIFY_fail} /\ nullKind = "none") =>
     (pc = "done" /\ result = FALSE)

\* C5: Linux: every getdents64 result but the latest was positive, a
\* positive result leaves the call in the loop, true is returned only after
\* a result of 0 and false only after a negative result.
C5_OnlyZeroEndsTheLoop ==
  variant = "linux" =>
     /\ \A i \in 1..(Len(reads) - 1) : reads[i] > 0
     /\ (reads # <<>> /\ Last(reads) > 0) => pc = "loop"
     /\ (pc = "done" /\ result = TRUE) => (reads # <<>> /\ Last(reads) = 0)
     /\ (pc = "done" /\ result = FALSE) => (reads # <<>> /\ Last(reads) < 0)

\* A read of one minimal record was followed by another read, then by 0.
C5_Witness ==
  /\ variant = "linux"
  /\ pc = "done"
  /\ result = TRUE
  /\ Len(reads) = 3
  /\ reads[1] = Reclen(<<97>>)

\* C6: POSIX: the duplicate stays open while the stream is read; once the
\* call has returned it has been released exactly once, by close if
\* fdopendir failed and by closedir otherwise, and the caller's descriptor
\* is still open.
C6_DuplicateReleasedOnce ==
  /\ (variant = "posix" /\ pc = "loop") =>
        (releases = <<>> /\ dir_fd \in fdOpen /\ CallerFd \in fdOpen)
  /\ (variant = "posix" /\ pc = "done") =>
        /\ dir_fd >= 0
        /\ dir_fd # CallerFd
        /\ releases = <<[op |-> (IF nullKind = "none" THEN "close" ELSE "closedir"),
                         fd |-> dir_fd]>>
        /\ dir_fd \notin fdOpen
        /\ CallerFd \in fdOpen

\* fdopendir failed on the duplicate.
C6_Witness ==
  /\ variant = "posix"
  /\ pc = "done"
  /\ nullKind = "none"
  /\ dir_fd # CallerFd
  /\ releases # <<>>

\* C7: when the call returns, nothing the vector held before the call is
\* still in it.
C7_NothingOldOnReturn ==
  pc = "done" => \A i \in 1..Len(entries) : entries[i] # OldPtr

\* C8: Linux: for every d_name the for loop visits, the word read and
\* written at it and the bytes memcmp reads from it lie inside the buffer.
C8_SortRangesInsideBuffer ==
  name_ptr # <<>> =>
     /\ 0 <= name_ptr[1]
     /\ name_ptr[1] + kWordBytes <= kBufSize
     /\ name_ptr[1] + kCmpOffset + kCmpLen <= kBufSize

\* The last record of a buffer as full as the request allows: the bytes
\* memcmp reads end with the buffer.
C8_Witness ==
  /\ name_ptr # <<>>
  /\ name_ptr[1] + kCmpOffset + kCmpLen = kBufSize

\* C9: Linux, case_sensitive: on return every byte written holds what the
\* kernel put there, every pointer addresses the name written at it, and
\* the words at two pointers do not overlap.
C9_BuffersRestored ==
  (variant = "linux" /\ pc = "done" /\ result = TRUE /\ case_sensitive) =>
     /\ \A a \in DOMAIN mem : mem[a] = BufByte(bufs, a[1], a[2])
     /\ \A i \in 1..Len(entries) : StrIs(entries[i], WrittenAt(entries[i]))
     /\ \A i, j \in 1..Len(entries) :
          (i # j /\ entries[i][1] = entries[j][1]) =>
             \/ entries[i][2] + kWordBytes <= entries[j][2]
             \/ entries[j][2] + kWordBytes <= entries[i][2]

\* Little-endian: two names of one buffer were swapped, exchanged by the
\* sort, and swapped back.
C9_Witness ==
  /\ variant = "linux"
  /\ pc = "done"
  /\ result = TRUE
  /\ case_sensitive
  /\ little_endian
  /\ Len(entries) = 2
  /\ entries[1][1] = entries[2][1]
  /\ entries[1][2] > entries[2][2]
  /\ DOMAIN mem # {}

\* C10: POSIX, stream open: ListDir returns true exactly when readdir
\* returned NULL without an error, and false, with the vector empty, exactly
\* when it returned NULL with one.
C10_ResultIsTheLastReaddir ==
  (variant = "posix" /\ pc = "done" /\ nullKind # "none") =>
     /\ (result = TRUE) <=> (nullKind = "end")
     /\ (result = FALSE) <=> (nullKind = "error")
     /\ (result = FALSE) => entries = <<>>

\* The stream ended cleanly after an entry was pushed, and errno was set
\* when the last turn of the loop began.
C10_Witness ==
  /\ variant = "posix"
  /\ pc = "done"
  /\ nullKind = "end"
  /\ result = TRUE
  /\ pushed > 0
  /\ errno_prior # <<0>>

====
